---- MODULE Spec2Model ----
(***************************************************************************)
(* Model of scripts/build_superliga_2025_2026.py: the scraper that builds  *)
(* fixtures.json, results.json, standings.json and meta.json for the       *)
(* SuperLiga season from lpf.ro (round pages) and lpf2.ro (standings).     *)
(*                                                                         *)
(* Three specifications share the module:                                  *)
(*   SpecWrite  write_json_if_changed called repeatedly on one path        *)
(*   SpecParse  extract_matches_from_round on every bounded page           *)
(*   Spec       main(), run after run, against a changing upstream         *)
(***************************************************************************)
EXTENDS Integers, Sequences, FiniteSets, TLC

VARIABLES
    \* --- SpecWrite ---
    wfile,      \* the file at the path handed to write_json_if_changed
    wcalls,     \* the last two calls: [obj, before, after, ret, writes]
    \* --- SpecParse ---
    plines,     \* the text lines of the round page (soup_text_lines' result)
    pphase,     \* "page" | "parsed" | "split"
    pout,       \* what extract_matches_from_round returned or raised
    psplit,     \* main's fixtures / results lists built from pout
    \* --- Spec: main(), run after run ---
    disk,       \* OUTDIR: the files fixtures, results, standings, meta
    site,       \* what lpf2.ro and lpf.ro answer during the current run
    prevSite,   \* what they answered during the run before
    now,        \* the clock iso_now() reads: the number of runs started
    pc,         \* "idle" | "standings" | "liga1" | "rounds" | "split" |
                \* "resolve" | "persist" | "done" | "crashed"
    run,        \* main's local variables
    hist        \* observations of the run: the files before it, the files
                \* it opened for writing, the exception a fetch raised

wvars == <<wfile, wcalls>>
pvars == <<plines, pphase, pout, psplit>>
mvars == <<disk, site, prevSite, now, pc, run, hist>>
vars == <<wvars, pvars, mvars>>

(***************************************************************************)
(* JSON values.  A Python dict keeps its insertion order and json.dump     *)
(* writes the keys in that order, so an object is a SEQUENCE of            *)
(* <<key, value>> pairs; json.load gives the pairs back in file order.     *)
(***************************************************************************)
JNull == [t |-> "null"]
JInt(n) == [t |-> "int", n |-> n]
JStr(s) == [t |-> "str", s |-> s]
JList(items) == [t |-> "list", items |-> items]
JObj(kv) == [t |-> "obj", kv |-> kv]

\* Python's None as the value of a variable (not a JSON document).
None == [t |-> "None"]

\* isinstance(x, list)
IsList(x) == x.t = "list"

\* Every dict key the program or the checked inputs use, in the order
\* sorted() puts them (code-point order): what sort_keys=True produces.
KeyOrder ==
    <<"a", "away", "b", "competition", "counts", "current_round", "dateEvent",
      "fixtures", "generated_utc", "home", "matches", "played", "points",
      "position", "results", "round", "score", "season", "sources",
      "standings", "standings_rows", "status", "strTime", "team">>

KeyRankTable ==
    [k \in {KeyOrder[i] : i \in 1..Len(KeyOrder)} |->
        CHOOSE i \in 1..Len(KeyOrder) : KeyOrder[i] = k]

KeyRank(k) == KeyRankTable[k]

\* Insert one pair into a list of pairs already sorted by key.
InsertPair(sorted, p) ==
    LET n == Cardinality({i \in 1..Len(sorted) : KeyRank(sorted[i][1]) <= KeyRank(p[1])})
    IN  SubSeq(sorted, 1, n) \o <<p>> \o SubSeq(sorted, n + 1, Len(sorted))

RECURSIVE SortPairs(_)
SortPairs(kv) ==
    IF kv = <<>> THEN <<>>
    ELSE CHOOSE out \in {InsertPair(front, kv[Len(kv)]) :
                            front \in {SortPairs(SubSeq(kv, 1, Len(kv) - 1))}} : TRUE

RECURSIVE stable_dumps_unsorted(_)
RECURSIVE DumpItemsUnsorted(_)
RECURSIVE DumpPairsUnsorted(_)

DumpItemsUnsorted(items) ==
    IF items = <<>> THEN <<>>
    ELSE <<stable_dumps_unsorted(Head(items))>> \o DumpItemsUnsorted(Tail(items))

DumpPairsUnsorted(kv) ==
    IF kv = <<>> THEN <<>>
    ELSE << <<Head(kv)[1], stable_dumps_unsorted(Head(kv)[2])>> >>
         \o DumpPairsUnsorted(Tail(kv))

\* The mutant of stable_dumps: sort_keys left out.
stable_dumps_unsorted(v) ==
    CASE v.t = "list" -> JList(DumpItemsUnsorted(v.items))
      [] v.t = "obj" -> JObj(DumpPairsUnsorted(v.kv))
      [] OTHER -> v

RECURSIVE stable_dumps(_)
RECURSIVE DumpItems(_)
RECURSIVE DumpPairs(_)

\* The items of a list, each in canonical form.
DumpItems(items) ==
    IF items = <<>> THEN <<>>
    ELSE <<stable_dumps(Head(items))>> \o DumpItems(Tail(items))

\* The pairs of an object, each value in canonical form.
DumpPairs(kv) ==
    IF kv = <<>> THEN <<>>
    ELSE << <<Head(kv)[1], stable_dumps(Head(kv)[2])>> >> \o DumpPairs(Tail(kv))

\* json.dumps(obj, sort_keys=True, separators=(",", ":")): the canonical
\* text, modelled as the value with every object's pairs sorted by key.
stable_dumps(v) ==
    CASE v.t = "list" -> JList(DumpItems(v.items))
      [] v.t = "obj" ->
            JObj(CHOOSE out \in {SortPairs(kv) : kv \in {DumpPairs(v.kv)}} : TRUE)
      [] OTHER -> v

\* The two values are logically equal: the same scalars, lists with equal
\* items in the same order, objects with the same keys and equal values
\* whatever the order of the keys.
RECURSIVE LogicallyEqual(_, _)
LogicallyEqual(v1, v2) ==
    IF v1.t # v2.t THEN FALSE
    ELSE CASE v1.t = "list" ->
                 /\ Len(v1.items) = Len(v2.items)
                 /\ \A i \in 1..Len(v1.items) :
                       LogicallyEqual(v1.items[i], v2.items[i])
           [] v1.t = "obj" ->
                 /\ Len(v1.kv) = Len(v2.kv)
                 /\ \A i \in 1..Len(v1.kv) :
                       \E j \in 1..Len(v2.kv) :
                           /\ v1.kv[i][1] = v2.kv[j][1]
                           /\ LogicallyEqual(v1.kv[i][2], v2.kv[j][2])
           [] OTHER -> v1 = v2

\* hashlib.sha256 of the canonical text: equal digests iff equal texts.
sha256_str(s) == <<"sha256", s>>

(***************************************************************************)
(* Files.  A file is missing, holds text json.load rejects, or holds the   *)
(* indent=2 rendering of a value (keys in the value's own order).          *)
(***************************************************************************)
FileMissing == [st |-> "missing"]
FileCorrupt == [st |-> "corrupt"]
FileJson(v) == [st |-> "json", val |-> v]

\* os.path.exists(path)
Exists(f) == f.st # "missing"

\* The mutant of write_json_if_changed: the comparison with the file on
\* disk is skipped, every call writes.
write_json_always(f, obj) ==
    [file |-> FileJson(obj), ret |-> TRUE, writes |-> 1]

\* write_json_if_changed(path, obj): the file afterwards, the value
\* returned, and the number of times the file was opened for writing.
write_json_if_changed(f, obj) ==
    LET new_hash == sha256_str(stable_dumps(obj))
        same == /\ Exists(f)
                /\ f.st = "json"      \* json.load raises otherwise: pass
                /\ sha256_str(stable_dumps(f.val)) = new_hash
    IN  IF same
        THEN [file |-> f, ret |-> FALSE, writes |-> 0]
        ELSE [file |-> FileJson(obj), ret |-> TRUE, writes |-> 1]

\* read_existing(path): the parsed value, or None when the file is missing
\* or does not parse.
read_existing(f) ==
    IF ~Exists(f) THEN None
    ELSE IF f.st = "json" THEN f.val ELSE None

(***************************************************************************)
(* Page lines.  A line is a string; what the regular expressions and the   *)
(* string tests of the classifiers answer for it is tabulated below.       *)
(***************************************************************************)
\* re.match(r"^\d{1,2}\s+[a-zA-Z...]{3}\s+\d{4},\s*\d{1,2}:\d{2}$", ln)
DatetimeShaped ==
    {"1 aug 2025, 20:00", "01 aug 2025, 20:00", "2 aug 2025, 18:30",
     "1 xyz 2025, 20:00", "31 feb 2025, 20:00"}

\* RO_MONTH lookup and datetime(yyyy, month, dd, hh, mm) + strftime:
\* "none" for a month that is not in RO_MONTH, "raise" for a date that
\* datetime() rejects with ValueError.
DatetimeTable ==
    [ln \in DatetimeShaped |->
        CASE ln = "1 aug 2025, 20:00" ->
                [k |-> "ok", date |-> "2025-08-01", time |-> "20:00:00"]
          [] ln = "01 aug 2025, 20:00" ->
                [k |-> "ok", date |-> "2025-08-01", time |-> "20:00:00"]
          [] ln = "2 aug 2025, 18:30" ->
                [k |-> "ok", date |-> "2025-08-02", time |-> "18:30:00"]
          [] ln = "1 xyz 2025, 20:00" -> [k |-> "none"]
          [] ln = "31 feb 2025, 20:00" -> [k |-> "raise"]]

\* l in {"data rezultat statistici", "statistici", ...} or
\* l.startswith(("vineri", ...)) after strip().lower()
NoiseLines == {"statistici", "Vineri, 1 august"}

\* re.fullmatch(r"\d{1,2}", l)
DigitTokens == {"0", "1", "2"}

\* int(tok) for a digit token
IntOf(tok) == CASE tok = "0" -> 0 [] tok = "1" -> 1 [] tok = "2" -> 2

\* len(l) < 2
ShortLines == {"-", "0", "1", "2", "X"}

\* re.match(r"^MJ\s+V\s+E", l)
TableHeaderLines == {"MJ V E"}

\* re.search(r"\bEtapa\b", l, re.IGNORECASE)
EtapaLines == {"Etapa 2"}

\* any(ch.isalpha() for ch in l)
AlphaLines ==
    DatetimeShaped \cup NoiseLines \cup TableHeaderLines \cup EtapaLines
    \cup {"FCSB", "Rapid", "Dinamo", "X"}

\* Every line the checked pages are made of.
AllLines == AlphaLines \cup DigitTokens \cup {"-", "20:30"}

is_datetime_line(ln) == ln \in DatetimeShaped

parse_datetime_ro(ln) ==
    IF ln \notin DatetimeShaped THEN [k |-> "none"] ELSE DatetimeTable[ln]

is_noise_line(ln) == ln \in NoiseLines

is_score_token(ln) == ln = "-" \/ ln \in DigitTokens

is_team_line(ln) ==
    IF is_noise_line(ln) THEN FALSE
    ELSE IF is_datetime_line(ln) THEN FALSE
    ELSE IF ln \in ShortLines THEN FALSE
    ELSE IF ln \in TableHeaderLines THEN FALSE
    ELSE IF ln \in EtapaLines THEN FALSE
    ELSE ln \in AlphaLines

(***************************************************************************)
(* Events.  A score is None (<<>>) or an integer n (<<n>>).  The fields    *)
(* kept are the ones that vary; the others of the dict are constants       *)
(* (idEvent, season, venue, city, source, source_league_id) or functions   *)
(* of the kept ones (kickoff_raw, event.strEvent).                         *)
(***************************************************************************)
NoScore == <<>>
Score(n) == <<n>>

\* The negated conditions of the three kinds of inner `while` loop: the
\* line at which the search for the home team, a score, the away team stops.
HomeStop(ln) == ~(is_noise_line(ln) \/ is_score_token(ln))
ScoreStop(ln) == is_score_token(ln)
AwayStop(ln) == ~(is_noise_line(ln) \/ is_score_token(ln) \/ is_datetime_line(ln))

Stops(loop, ln) ==
    CASE loop = "home" -> HomeStop(ln)
      [] loop = "score" -> ScoreStop(ln)
      [] loop = "away" -> AwayStop(ln)

\* The index where a `while idx < len(lines) and <continue>` loop stops:
\* the first index from `from` on that is past the end or where the loop's
\* condition fails.
ScanTo(lines, from, loop) ==
    CHOOSE x \in from..(Len(lines) + 1) :
        /\ x = Len(lines) + 1 \/ Stops(loop, lines[x])
        /\ \A y \in from..(x - 1) : ~Stops(loop, lines[y])

\* hs = None if hs_tok == "-" else int(hs_tok)
TokScore(tok) == IF tok = "-" THEN NoScore ELSE Score(IntOf(tok))

\* The mutant of EventStatus: a match counts as finished as soon as one
\* score is present.
EventStatusAny(hs, a_s) ==
    IF hs = NoScore /\ a_s = NoScore THEN "scheduled" ELSE "finished"

\* status = "scheduled" if (hs is None or a_s is None) else "finished"
EventStatus(hs, a_s) ==
    IF hs = NoScore \/ a_s = NoScore THEN "scheduled" ELSE "finished"

MakeEvent(round_no, dt, home, away, hs_tok, as_tok) ==
    LET hs == TokScore(hs_tok)
        a_s == TokScore(as_tok)
    IN  [round |-> ToString(round_no),
         dateEvent |-> dt.date,
         strTime |-> dt.time,
         home |-> home,
         away |-> away,
         status |-> EventStatus(hs, a_s),
         score |-> [home |-> hs, away |-> a_s]]

\* The while loop of extract_matches_from_round from index i on (1-based),
\* with the matches appended so far: the list, or the exception raised.
RECURSIVE ScanMatches(_, _, _, _)
ScanMatches(lines, round_no, i, matches) ==
    IF i > Len(lines) THEN [exc |-> "", matches |-> matches]
    ELSE IF ~is_datetime_line(lines[i])
    THEN ScanMatches(lines, round_no, i + 1, matches)
    ELSE
        LET dt == parse_datetime_ro(lines[i])
            j == ScanTo(lines, i + 1, "home")
            k == ScanTo(lines, j + 1, "score")
            a == ScanTo(lines, k + 1, "away")
            b == ScanTo(lines, a + 1, "score")
        IN  IF dt.k = "raise" THEN [exc |-> "ValueError", matches |-> <<>>]
            ELSE IF dt.k = "none"
            THEN ScanMatches(lines, round_no, i + 1, matches)
            ELSE IF j > Len(lines) \/ ~is_team_line(lines[j])
            THEN ScanMatches(lines, round_no, i + 1, matches)
            ELSE IF k > Len(lines)
            THEN ScanMatches(lines, round_no, i + 1, matches)
            ELSE IF a > Len(lines) \/ ~is_team_line(lines[a])
            THEN ScanMatches(lines, round_no, i + 1, matches)
            ELSE IF b > Len(lines)
            THEN ScanMatches(lines, round_no, i + 1, matches)
            ELSE ScanMatches(lines, round_no, b + 1,
                    Append(matches,
                           MakeEvent(round_no, dt, lines[j], lines[a],
                                     lines[k], lines[b])))

\* key = (m["round"], m["dateEvent"], m["strTime"], m["home"], m["away"])
DedupeKey(m) == <<m.round, m.dateEvent, m.strTime, m.home, m.away>>

\* The mutant of Dedupe: the loop that drops repeated keys is left out.
DedupeNone(matches) == matches

\* seen / uniq: the first match of every key, in order.
RECURSIVE DedupeFrom(_, _)
DedupeFrom(matches, uniq) ==
    IF matches = <<>> THEN uniq
    ELSE IF \E i \in 1..Len(uniq) : DedupeKey(uniq[i]) = DedupeKey(Head(matches))
    THEN DedupeFrom(Tail(matches), uniq)
    ELSE DedupeFrom(Tail(matches), Append(uniq, Head(matches)))

Dedupe(matches) == DedupeFrom(matches, <<>>)

\* extract_matches_from_round(round_no) once the page is fetched and split
\* into lines: the list of matches, or the exception that escapes.
extract_matches_from_lines(round_no, lines) ==
    LET r == ScanMatches(lines, round_no, 1, <<>>)
    IN  IF r.exc # "" THEN r ELSE [exc |-> "", matches |-> Dedupe(r.matches)]

\* [m for m in all_matches if m["status"] == <status>]
RECURSIVE FilterStatus(_, _)
FilterStatus(all_matches, status) ==
    IF all_matches = <<>> THEN <<>>
    ELSE IF Head(all_matches).status = status
    THEN <<Head(all_matches)>> \o FilterStatus(Tail(all_matches), status)
    ELSE FilterStatus(Tail(all_matches), status)

(***************************************************************************)
(* Ordering of strings.  Python compares str by code point; StrOrder lists *)
(* every string a sort key holds, in that order.                           *)
(***************************************************************************)
StrOrder ==
    <<"18:30:00", "2025-08-01", "2025-08-02", "20:00:00",
      "Dinamo", "FCSB", "Rapid">>

StrRankTable ==
    [x \in {StrOrder[i] : i \in 1..Len(StrOrder)} |->
        CHOOSE i \in 1..Len(StrOrder) : StrOrder[i] = x]

StrRank(x) == StrRankTable[x]

\* k1 < k2 for two tuples of ranks of the same length.
RECURSIVE TupleLess(_, _)
TupleLess(k1, k2) ==
    IF k1 = <<>> THEN FALSE
    ELSE IF k1[1] # k2[1] THEN k1[1] < k2[1]
    ELSE TupleLess(Tail(k1), Tail(k2))

\* key=lambda x: (x["dateEvent"], x["strTime"], x["home"], x["away"])
FixturesKey(m) ==
    <<StrRank(m.dateEvent), StrRank(m.strTime), StrRank(m.home), StrRank(m.away)>>

\* key=lambda x: (x["dateEvent"], x["strTime"])
ResultsKey(m) == <<StrRank(m.dateEvent), StrRank(m.strTime)>>

\* key=lambda x: x["position"]
PositionKey(row) == <<row.position>>

\* The key function of each of the three sorts.
SortKey(key, x) ==
    CASE key = "fixtures" -> FixturesKey(x)
      [] key = "results" -> ResultsKey(x)
      [] key = "position" -> PositionKey(x)

\* x put into a sorted list behind every element that does not sort after
\* it, so that equal keys keep their order.
InsertBy(front, x, key, reverse) ==
    LET kx == SortKey(key, x)
        n == Cardinality({i \in 1..Len(front) :
                 IF reverse THEN ~TupleLess(SortKey(key, front[i]), kx)
                 ELSE ~TupleLess(kx, SortKey(key, front[i]))})
    IN  SubSeq(front, 1, n) \o <<x>> \o SubSeq(front, n + 1, Len(front))

\* list.sort(key=...): a stable sort, ascending; with reverse=True
\* descending, equal keys still in their original order.
RECURSIVE SortBy(_, _, _)
SortBy(sq, key, reverse) ==
    IF sq = <<>> THEN <<>>
    ELSE CHOOSE out \in {InsertBy(front, sq[Len(sq)], key, reverse) :
                            front \in {SortBy(SubSeq(sq, 1, Len(sq) - 1), key, reverse)}} :
             TRUE

(***************************************************************************)
(* Values as json.dump writes them.                                        *)
(***************************************************************************)
ScoreJson(sc) == IF sc = NoScore THEN JNull ELSE JInt(sc[1])

\* One match dict, keys in the order of the dict literal.
EventJson(m) ==
    JObj(<< <<"round", JStr(m.round)>>,
            <<"dateEvent", JStr(m.dateEvent)>>,
            <<"strTime", JStr(m.strTime)>>,
            <<"home", JStr(m.home)>>,
            <<"away", JStr(m.away)>>,
            <<"status", JStr(m.status)>>,
            <<"score", JObj(<< <<"home", ScoreJson(m.score.home)>>,
                               <<"away", ScoreJson(m.score.away)>> >>)>> >>)

RECURSIVE EventItems(_)
EventItems(ms) ==
    IF ms = <<>> THEN <<>> ELSE <<EventJson(Head(ms))>> \o EventItems(Tail(ms))

EventsJson(ms) == JList(EventItems(ms))

\* One standings dict; win, draw, loss, gf, ga and gd are left out.
RowJson(row) ==
    JObj(<< <<"position", JInt(row.position)>>,
            <<"team", JStr(row.team)>>,
            <<"played", JInt(row.played)>>,
            <<"points", JInt(row.points)>> >>)

RECURSIVE RowItems(_)
RowItems(rows) ==
    IF rows = <<>> THEN <<>> ELSE <<RowJson(Head(rows))>> \o RowItems(Tail(rows))

RowsJson(rows) == JList(RowItems(rows))

\* obj[key] of a JSON object
Get(obj, key) ==
    LET i == CHOOSE i \in 1..Len(obj.kv) : obj.kv[i][1] = key
    IN  obj.kv[i][2]

\* A status code of meta["status"]: f"{code}:{a}-{b}" or f"{code}:{exc}".
Status(code, a, b, exc) == [code |-> code, a |-> a, b |-> b, exc |-> exc]
JStatus(st) == [t |-> "str", status |-> st]
JUtc(time) == [t |-> "str", utc |-> time]

(***************************************************************************)
(* Standings: parse_standings_from_lpf2.  The text of a table row (or of a *)
(* text line) is a record of what parse_row_text's regular expressions     *)
(* find in it: the leading position (<<>> when the text does not start     *)
(* with 1-2 digits), the team name before the first number, and the        *)
(* numbers from the first one on.                                          *)
(***************************************************************************)
RowText(pos, team, nums) == [pos |-> pos, team |-> team, nums |-> nums]

\* parse_row_text(txt): the row, or <<>> for None.
parse_row_text(txt) ==
    IF txt.pos = <<>> THEN <<>>
    ELSE IF txt.nums = <<>> THEN <<>>
    ELSE IF Len(txt.nums) < 5 THEN <<>>
    ELSE IF txt.team = "" THEN <<>>
    ELSE <<[position |-> txt.pos[1],
            team |-> txt.team,
            played |-> txt.nums[1],
            points |-> txt.nums[Len(txt.nums)]]>>

RECURSIVE ParseRows(_)
ParseRows(texts) ==
    IF texts = <<>> THEN <<>>
    ELSE parse_row_text(Head(texts)) \o ParseRows(Tail(texts))

\* The threshold of `if len(standings) >= 12`.
MIN_TEAMS == 12

\* The mutant of StandingsOnFetchError: the exception of fetch_html is not
\* caught and leaves main.
StandingsFetchErrorEscapes(exc) ==
    [crashed |-> TRUE, standings |-> <<>>,
     status |-> Status("lpf2_fetch_failed", 0, 0, exc)]

\* except Exception as e: return [], f"lpf2_fetch_failed:{type(e).__name__}"
StandingsOnFetchError(exc) ==
    [crashed |-> FALSE, standings |-> <<>>,
     status |-> Status("lpf2_fetch_failed", 0, 0, exc)]

\* parse_standings_from_lpf2() for one answer of lpf2.ro.
parse_standings_from_lpf2(resp) ==
    IF resp.exc # "" THEN StandingsOnFetchError(resp.exc)
    ELSE
        LET standings == SortBy(ParseRows(resp.rows), "position", FALSE)
        IN  [crashed |-> FALSE,
             standings |-> standings,
             status |-> IF Len(standings) >= MIN_TEAMS
                        THEN Status("lpf2_ok", 0, 0, "")
                        ELSE Status("lpf2_incomplete", Len(standings), 0, "")]

(***************************************************************************)
(* Current round: parse_current_round.  What the two regular expressions   *)
(* find in a line of the lpf.ro/liga-1 page is tabulated per line.         *)
(***************************************************************************)
\* r"Clasament\s+SUPERLIGA\s*-\s*Etapa\s+(\d+)": group 1 as <<n>>, or <<>>.
ClasamentEtapa(ln) ==
    CASE ln = "Clasament SUPERLIGA - Etapa 2" -> <<2>>
      [] OTHER -> <<>>

\* r"\bEtapa\s+(\d{1,2})\b": group 1 as <<n>>, or <<>>.
AnyEtapa(ln) ==
    CASE ln = "Clasament SUPERLIGA - Etapa 2" -> <<2>>
      [] ln = "Etapa 29" -> <<29>>
      [] OTHER -> <<>>

EtapaSearch(pattern, ln) ==
    IF pattern = "clasament" THEN ClasamentEtapa(ln) ELSE AnyEtapa(ln)

\* The first line a pattern matches, as <<n>>, or <<>>.
FirstMatch(lines, pattern) ==
    LET hits == {i \in 1..Len(lines) : EtapaSearch(pattern, lines[i]) # <<>>}
    IN  IF hits = {} THEN <<>>
        ELSE EtapaSearch(pattern, lines[CHOOSE i \in hits : \A h \in hits : i <= h])

parse_current_round(lines) ==
    IF FirstMatch(lines, "clasament") # <<>>
    THEN FirstMatch(lines, "clasament")[1]
    ELSE IF FirstMatch(lines, "etapa") # <<>>
    THEN FirstMatch(lines, "etapa")[1]
    ELSE 1

PAST_ROUNDS == 2
FUTURE_ROUNDS == 3
MAX_ROUNDS == 30

Max(a, b) == IF a >= b THEN a ELSE b
Min(a, b) == IF a <= b THEN a ELSE b

\* start_r = max(1, current_round - PAST_ROUNDS)
StartRound(current_round) == Max(1, current_round - PAST_ROUNDS)
\* end_r = min(MAX_ROUNDS, current_round + FUTURE_ROUNDS)
EndRound(current_round) == Min(MAX_ROUNDS, current_round + FUTURE_ROUNDS)

(***************************************************************************)
(* The upstream.  A site is what the three sources answer during one run:  *)
(* an answer is an exception (exc # "") or a page.                         *)
(***************************************************************************)
TeamNames ==
    <<"FCSB", "Rapid", "Dinamo", "CFR Cluj", "U Craiova", "Farul", "Sepsi",
      "UTA", "Botosani", "Otelul", "Hermannstadt", "Petrolul">>

\* A well-formed table row: position, team, played, win, draw, loss,
\* goals for, goals against, points.
GoodRow(pos) ==
    RowText(<<pos>>, TeamNames[pos], <<3, 1, 1, 1, 4, 4, 13 - pos>>)

Lpf2Fail == [exc |-> "ConnectionError", rows |-> <<>>]
\* The table is there, no row of it parses (a header row, a row cut short).
Lpf2Empty ==
    [exc |-> "",
     rows |-> <<RowText(<<>>, "", <<>>), RowText(<<1>>, "FCSB", <<3, 1, 1>>)>>]
\* Five rows parse, out of order, among rows that do not.
Lpf2Five ==
    [exc |-> "",
     rows |-> <<RowText(<<>>, "", <<>>), GoodRow(3), GoodRow(1), GoodRow(2),
                RowText(<<6>>, "", <<3, 1, 1, 1, 4, 4, 7>>),
                GoodRow(5), GoodRow(4)>>]
RECURSIVE GoodRows(_)
GoodRows(n) == IF n = 0 THEN <<>> ELSE Append(GoodRows(n - 1), GoodRow(n))

Lpf2Full == [exc |-> "", rows |-> GoodRows(MIN_TEAMS)]

Lpf2Answers == {Lpf2Fail, Lpf2Empty, Lpf2Five, Lpf2Full}

Liga1Fail == [exc |-> "HTTPError", lines |-> <<>>]
\* No line names a round: the current round defaults to 1.
Liga1NoRound == [exc |-> "", lines |-> <<"FCSB", "Rapid">>]
\* The standings heading wins over an earlier "Etapa" line: round 2.
Liga1Round2 ==
    [exc |-> "", lines |-> <<"Etapa 29", "Clasament SUPERLIGA - Etapa 2">>]
\* Round 29: the window 27..32 is cut at MAX_ROUNDS.
Liga1Round29 == [exc |-> "", lines |-> <<"FCSB", "Etapa 29">>]

\* The match of round r on lpf.ro: teams by r mod 3, kickoff by r mod 2,
\* played already unless r is a multiple of 3.
RoundHome(r) == <<"Rapid", "FCSB", "Dinamo">>[(r % 3) + 1]
RoundAway(r) == <<"Dinamo", "Rapid", "FCSB">>[(r % 3) + 1]
RoundKickoff(r) == <<"2 aug 2025, 18:30", "1 aug 2025, 20:00">>[(r % 2) + 1]
\* The same kickoff as the site prints it in its second listing of a match.
RoundKickoffAgain(r) == <<"2 aug 2025, 18:30", "01 aug 2025, 20:00">>[(r % 2) + 1]

MatchLines(r, kickoff) ==
    IF r % 3 = 0
    THEN <<kickoff, RoundHome(r), "-", "statistici", RoundAway(r), "-">>
    ELSE <<kickoff, RoundHome(r), "20:30", "2", RoundAway(r), "1">>

RoundVariants == {"normal", "empty", "fail", "bad_date", "overlap"}

\* What lpf.ro/etape-liga-1/{r} answers; start_r is the first round of the
\* run.
RoundAnswer(variant, r, start_r) ==
    CASE variant = "normal" ->
            \* the round's match, listed twice on the page
            [exc |-> "",
             lines |-> <<"Etapa 2", "Vineri, 1 august">>
                       \o MatchLines(r, RoundKickoff(r))
                       \o MatchLines(r, RoundKickoffAgain(r))]
      [] variant = "empty" ->
            \* the page is served, its layout holds no match
            [exc |-> "", lines |-> <<"Etapa 2", "MJ V E", "statistici">>]
      [] variant = "fail" ->
            IF r = start_r + 1
            THEN [exc |-> "HTTPError", lines |-> <<>>]
            ELSE [exc |-> "", lines |-> MatchLines(r, RoundKickoff(r))]
      [] variant = "bad_date" ->
            IF r = start_r + 1
            THEN [exc |-> "",
                  lines |-> <<"31 feb 2025, 20:00", "FCSB", "1", "Rapid", "1">>]
            ELSE [exc |-> "", lines |-> MatchLines(r, RoundKickoff(r))]
      [] variant = "overlap" ->
            \* the page of round r also lists the match of round r + 1
            [exc |-> "",
             lines |-> MatchLines(r, RoundKickoff(r))
                       \o <<"1 xyz 2025, 20:00", "X">>
                       \o MatchLines(r + 1, RoundKickoff(r + 1))]

\* What lpf.ro answers: the liga-1 page and the round pages behind it.  The
\* round pages are not asked for when the liga-1 page fails.
LpfAnswers ==
    {<<Liga1Fail, "normal">>, <<Liga1NoRound, "normal">>,
     <<Liga1Round29, "normal">>, <<Liga1Round29, "fail">>}
    \cup {<<Liga1Round2, v>> : v \in RoundVariants}

Sites ==
    {[lpf2 |-> a, liga1 |-> m[1], rounds |-> m[2]] :
        a \in Lpf2Answers, m \in LpfAnswers}

NoSite == [lpf2 |-> Lpf2Fail, liga1 |-> Liga1Fail, rounds |-> "none"]

(***************************************************************************)
(* main()                                                                  *)
(***************************************************************************)
\* The number of runs of main the model follows.
MaxRuns == 2

Files == {"fixtures", "results", "standings", "meta"}

EmptyDir ==
    [fixtures |-> FileMissing, results |-> FileMissing,
     standings |-> FileMissing, meta |-> FileMissing]
CorruptDir ==
    [fixtures |-> FileCorrupt, results |-> FileCorrupt,
     standings |-> FileCorrupt, meta |-> FileCorrupt]

\* fixtures = None, results = None, current_round = None,
\* matches_status = "not_started"
RunStart ==
    [standings |-> JList(<<>>),
     standings_status |-> Status("not_started", 0, 0, ""),
     fixtures |-> None,
     results |-> None,
     current_round |-> <<>>,
     matches_status |-> Status("not_started", 0, 0, ""),
     all_matches |-> <<>>,
     r |-> 0,
     meta |-> None]

HistStart(d) ==
    [disk0 |-> d, written |-> {}, raised |-> "", fresh |-> JList(<<>>),
     standings_from |-> "lpf2"]

\* The variables of SpecParse before a page is built.
ParseIdle ==
    /\ plines = <<>>
    /\ pphase = "page"
    /\ pout = [exc |-> "", matches |-> <<>>]
    /\ psplit = [fixtures |-> <<>>, results |-> <<>>]

\* The variables of Spec before main is started.
MainIdle ==
    /\ disk = EmptyDir
    /\ site = NoSite
    /\ prevSite = NoSite
    /\ now = 0
    /\ pc = "idle"
    /\ run = RunStart
    /\ hist = HistStart(EmptyDir)

\* The output directory is empty, or holds files that do not parse.
Init ==
    /\ disk \in {EmptyDir, CorruptDir}
    /\ site = NoSite
    /\ prevSite = NoSite
    /\ now = 0
    /\ pc = "idle"
    /\ run = RunStart
    /\ hist = HistStart(disk)
    /\ ParseIdle
    /\ wfile = FileMissing
    /\ wcalls = <<>>

\* main is started; the upstream of this run is s.
StartRun ==
    /\ pc \in {"idle", "done"}
    /\ now < MaxRuns
    /\ \E s \in Sites : site' = s
    /\ prevSite' = IF pc = "done" THEN site ELSE prevSite
    /\ now' = now + 1
    /\ run' = RunStart
    /\ hist' = HistStart(disk)
    /\ pc' = "standings"
    /\ UNCHANGED <<disk, wvars, pvars>>

\* standings, standings_status = parse_standings_from_lpf2()
Standings ==
    /\ pc = "standings"
    /\ \E res \in {parse_standings_from_lpf2(site.lpf2)} :
           /\ run' = [run EXCEPT !.standings = RowsJson(res.standings),
                                 !.standings_status = res.status]
           /\ hist' = [hist EXCEPT !.fresh = RowsJson(res.standings)]
           /\ pc' = IF res.crashed THEN "crashed" ELSE "liga1"
    /\ UNCHANGED <<disk, site, prevSite, now, wvars, pvars>>

\* The mutant of MatchesOnException: the lists are emptied instead of read
\* back from the files.
MatchesExceptionEmpties(exc, d) ==
    [crashed |-> FALSE, matches_status |-> Status("lpf_failed", 0, 0, exc),
     fixtures |-> JList(<<>>), results |-> JList(<<>>)]

\* except Exception as e: matches_status = f"lpf_failed:{type(e).__name__}",
\* fixtures and results are read back from the files of the run before.
MatchesOnException(exc, d) ==
    [crashed |-> FALSE,
     matches_status |-> Status("lpf_failed", 0, 0, exc),
     fixtures |-> read_existing(d.fixtures),
     results |-> read_existing(d.results)]

\* The try block is left through its except clause.
Except(exc) ==
    \E h \in {MatchesOnException(exc, disk)} :
        /\ run' = [run EXCEPT !.matches_status = h.matches_status,
                              !.fixtures = h.fixtures,
                              !.results = h.results]
        /\ hist' = [hist EXCEPT !.raised = exc]
        /\ pc' = IF h.crashed THEN "crashed" ELSE "resolve"

\* fetch_html(LPF_LIGA1_URL), parse_current_round, start_r and end_r.
Liga1 ==
    /\ pc = "liga1"
    /\ IF site.liga1.exc # ""
       THEN Except(site.liga1.exc)
       ELSE LET cur == parse_current_round(site.liga1.lines)
            IN  /\ run' = [run EXCEPT !.current_round = <<cur>>,
                                      !.r = StartRound(cur),
                                      !.all_matches = <<>>]
                /\ pc' = IF StartRound(cur) > EndRound(cur) THEN "split"
                         ELSE "rounds"
                /\ UNCHANGED hist
    /\ UNCHANGED <<disk, site, prevSite, now, wvars, pvars>>

\* One turn of `for r in range(start_r, end_r + 1)`:
\* all_matches.extend(extract_matches_from_round(r)).
Round ==
    /\ pc = "rounds"
    /\ \E cur \in {run.current_round[1]} :
       \E resp \in {RoundAnswer(site.rounds, run.r, StartRound(cur))} :
       \E ext \in {extract_matches_from_lines(run.r, resp.lines)} :
           IF resp.exc # "" THEN Except(resp.exc)
           ELSE IF ext.exc # "" THEN Except(ext.exc)
           ELSE /\ run' = [run EXCEPT !.all_matches = @ \o ext.matches,
                                      !.r = @ + 1]
                /\ pc' = IF run.r + 1 > EndRound(cur) THEN "split"
                         ELSE "rounds"
                /\ UNCHANGED hist
    /\ UNCHANGED <<disk, site, prevSite, now, wvars, pvars>>

\* After the loop: fixtures and results are filtered out of all_matches and
\* sorted, matches_status = f"lpf_ok_rounds:{start_r}-{end_r}".
Split ==
    /\ pc = "split"
    /\ LET cur == run.current_round[1]
           fixtures == SortBy(FilterStatus(run.all_matches, "scheduled"),
                              "fixtures", FALSE)
           results == SortBy(FilterStatus(run.all_matches, "finished"),
                             "results", TRUE)
       IN  run' = [run EXCEPT
                     !.fixtures = EventsJson(fixtures),
                     !.results = EventsJson(results),
                     !.matches_status =
                         Status("lpf_ok_rounds", StartRound(cur), EndRound(cur), "")]
    /\ pc' = "resolve"
    /\ UNCHANGED <<disk, site, prevSite, now, hist, wvars, pvars>>

\* len(x) if isinstance(x, list) else 0
CountOf(x) == IF IsList(x) THEN Len(x.items) ELSE 0

\* The meta dict, keys in the order of the dict literal.
MetaJson(r, time) ==
    JObj(<< <<"competition", JStr("SuperLiga (LPF + LPF2)")>>,
            <<"season", JStr("2025-2026")>>,
            <<"sources", JObj(<< <<"matches", JStr("lpf.ro")>>,
                                 <<"standings", JStr("lpf2.ro")>> >>)>>,
            <<"generated_utc", JUtc(time)>>,
            <<"current_round", IF r.current_round = <<>> THEN JNull
                               ELSE JInt(r.current_round[1])>>,
            <<"status", JObj(<< <<"matches", JStatus(r.matches_status)>>,
                                <<"standings", JStatus(r.standings_status)>> >>)>>,
            <<"counts", JObj(<< <<"fixtures", JInt(CountOf(r.fixtures))>>,
                                <<"results", JInt(CountOf(r.results))>>,
                                <<"standings_rows", JInt(CountOf(r.standings))>> >>)>> >>)

\* `if not standings:` the table of the run before is taken when it is a
\* non-empty list.  "from" tells which table main goes on with.
ResolveStandings(standings, d) ==
    LET prev == read_existing(d.standings)
    IN  IF standings.items = <<>> /\ IsList(prev) /\ prev.items # <<>>
        THEN [standings |-> prev, from |-> "previous"]
        ELSE [standings |-> standings, from |-> "lpf2"]

\* The standings fallback and the meta dict.
Resolve ==
    /\ pc = "resolve"
    /\ \E res \in {ResolveStandings(run.standings, disk)} :
       \E r1 \in {[run EXCEPT !.standings = res.standings]} :
           /\ run' = [r1 EXCEPT !.meta = MetaJson(r1, now)]
           /\ hist' = [hist EXCEPT !.standings_from = res.from]
    /\ pc' = "persist"
    /\ UNCHANGED <<disk, site, prevSite, now, wvars, pvars>>

NoWrite(f) == [file |-> f, ret |-> FALSE, writes |-> 0]

\* if isinstance(obj, list): changed |= write_json_if_changed(path, obj)
WriteList(f, obj) == IF IsList(obj) THEN write_json_if_changed(f, obj) ELSE NoWrite(f)

\* The mutant of WriteMeta: meta.json is written whatever `changed` says.
WriteMetaAlways(changed, f, meta) == write_json_if_changed(f, meta)

\* if changed: write_json_if_changed(meta.json, meta)
WriteMeta(changed, f, meta) ==
    IF changed THEN write_json_if_changed(f, meta) ELSE NoWrite(f)

\* The three data files, then meta.json.
Persist ==
    /\ pc = "persist"
    /\ \E wf \in {WriteList(disk.fixtures, run.fixtures)},
          wr \in {WriteList(disk.results, run.results)},
          ws \in {WriteList(disk.standings, run.standings)} :
          \E wm \in {WriteMeta(wf.ret \/ wr.ret \/ ws.ret, disk.meta, run.meta)} :
             LET w == [fixtures |-> wf, results |-> wr, standings |-> ws,
                       meta |-> wm]
             IN  /\ disk' = [fixtures |-> wf.file, results |-> wr.file,
                             standings |-> ws.file, meta |-> wm.file]
                 /\ hist' = [hist EXCEPT
                                !.written = {f \in Files : w[f].writes > 0}]
    /\ pc' = "done"
    /\ UNCHANGED <<site, prevSite, now, run, wvars, pvars>>

Next ==
    \/ StartRun
    \/ Standings
    \/ Liga1
    \/ Round
    \/ Split
    \/ Resolve
    \/ Persist

Spec == Init /\ [][Next]_vars

(***************************************************************************)
(* Properties of main().                                                   *)
(***************************************************************************)
Done == pc = "done"

\* The file holds a list with at least one element.
NonEmptyList(f) == f.st = "json" /\ IsList(f.val) /\ f.val.items # <<>>

\* The file holds the value, key order aside.
Holds(f, v) == f.st = "json" /\ LogicallyEqual(f.val, v)

\* meta["status"][stage] of the meta dict the run built.
MetaStatus(stage) == Get(Get(run.meta, "status"), stage).status

C3_CompletenessGate ==
    (Done /\ hist.raised = "" /\ run.all_matches = <<>>) =>
        /\ NonEmptyList(hist.disk0.fixtures) => disk.fixtures = hist.disk0.fixtures
        /\ NonEmptyList(hist.disk0.results) => disk.results = hist.disk0.results

\* standings.json holds the table parsed from lpf2.ro in this run.
AdoptedLpf2Table ==
    /\ hist.standings_from = "lpf2"
    /\ hist.fresh.items # <<>>
    /\ Holds(disk.standings, hist.fresh)

\* C4: a table of fewer than MIN_TEAMS rows is not adopted as the
\* standings of the run.
C4_StandingsGate ==
    (Done /\ run.standings_status.code = "lpf2_incomplete") => ~AdoptedLpf2Table

DataFiles == {"fixtures", "results", "standings"}

\* C5: meta.json is written only in a run that modified fixtures.json,
\* results.json or standings.json; otherwise it is left untouched.
C5_MetaOnlyIfDataChanged ==
    Done =>
        /\ "meta" \in hist.written => hist.written \cap DataFiles # {}
        /\ "meta" \notin hist.written => disk.meta = hist.disk0.meta

\* Reached: no data file changed, and meta.json is left as it was although
\* the meta dict of the run differs from it.
C5_Witness ==
    /\ Done
    /\ hist.written = {}
    /\ disk.meta.st = "json"
    /\ ~LogicallyEqual(disk.meta.val, run.meta)

\* The events of fixtures.json and results.json.
Published(f) == IF disk[f].st = "json" /\ IsList(disk[f].val) THEN disk[f].val.items ELSE <<>>

Kickoff(e) ==
    <<Get(e, "dateEvent").s, Get(e, "strTime").s, Get(e, "home").s, Get(e, "away").s>>

\* C6 as stated: no artifact holds two events with the same kickoff date
\* and time, home and away.
C6_UniqueKickoffHomeAway ==
    \A f \in {"fixtures", "results"} :
        \A i, j \in 1..Len(Published(f)) :
            i # j => Kickoff(Published(f)[i]) # Kickoff(Published(f)[j])

\* C6 (amended): no artifact holds two events with the same round, kickoff
\* date and time, home and away.
C6_UniquePerRound ==
    \A f \in {"fixtures", "results"} :
        \A i, j \in 1..Len(Published(f)) :
            i # j =>
                <<Get(Published(f)[i], "round").s, Kickoff(Published(f)[i])>>
                # <<Get(Published(f)[j], "round").s, Kickoff(Published(f)[j])>>

\* Reached: a match listed on the pages of two rounds is published twice,
\* once per round.
C6_Witness ==
    /\ Done
    /\ \E f \in {"fixtures", "results"} :
          \E i, j \in 1..Len(Published(f)) :
              /\ i # j
              /\ Kickoff(Published(f)[i]) = Kickoff(Published(f)[j])
              /\ Get(Published(f)[i], "round").s # Get(Published(f)[j], "round").s

\* C9: whatever fetch fails, no exception leaves main before the
\* persistence step (pc never becomes "crashed"), and what the run computed
\* is on disk at its end: the matches parsed when no fetch of the match
\* stage raised, the table parsed from lpf2.ro.
C9_FailureIsolation ==
    /\ pc # "crashed"
    /\ Done =>
          /\ hist.raised = "" =>
                /\ Holds(disk.fixtures, run.fixtures)
                /\ Holds(disk.results, run.results)
                /\ Len(run.fixtures.items) + Len(run.results.items)
                      = Len(run.all_matches)
          /\ hist.fresh.items # <<>> => Holds(disk.standings, hist.fresh)

\* Reached: the match stage raised, and the table parsed in the same run
\* was written to standings.json.
C9_Witness ==
    /\ Done
    /\ hist.raised # ""
    /\ hist.fresh.items # <<>>
    /\ "standings" \in hist.written

\* C10: a run whose upstream answers as it did in the run before writes no
\* file.
C10_RunIdempotent ==
    (Done /\ site = prevSite) =>
        /\ hist.written = {}
        /\ disk = hist.disk0

\* Reached: the second of two equal runs, with matches on disk, whose meta
\* dict carries a later timestamp than meta.json.
C10_Witness ==
    /\ Done
    /\ site = prevSite
    /\ NonEmptyList(disk.fixtures)
    /\ disk.meta.st = "json"
    /\ Get(disk.meta.val, "generated_utc") # Get(run.meta, "generated_utc")
    /\ hist.written = {}

(***************************************************************************)
(* SpecParse: every page of at most MaxLines lines over ParseLines is      *)
(* built line by line, parsed, and split into fixtures and results.        *)
(***************************************************************************)
MaxLines == 5

ParseLines ==
    {"1 aug 2025, 20:00", "31 feb 2025, 20:00", "FCSB", "Rapid", "-", "1",
     "statistici"}

\* The round whose page SpecParse parses.
ParseRound == 3

InitParse ==
    /\ ParseIdle
    /\ wfile = FileMissing
    /\ wcalls = <<>>
    /\ MainIdle

\* The page grows by one line.
PAddLine(ln) ==
    /\ pphase = "page"
    /\ Len(plines) < MaxLines
    /\ plines' = Append(plines, ln)
    /\ UNCHANGED <<pphase, pout, psplit, wvars, mvars>>

\* extract_matches_from_round on the page.
PExtract ==
    /\ pphase = "page"
    /\ pout' = extract_matches_from_lines(ParseRound, plines)
    /\ pphase' = "parsed"
    /\ UNCHANGED <<plines, psplit, wvars, mvars>>

\* main's split of the matches into fixtures and results.
PSplit ==
    /\ pphase = "parsed"
    /\ pout.exc = ""
    /\ psplit' = [fixtures |-> FilterStatus(pout.matches, "scheduled"),
                  results |-> FilterStatus(pout.matches, "finished")]
    /\ pphase' = "split"
    /\ UNCHANGED <<plines, pout, wvars, mvars>>

NextParse ==
    \/ \E ln \in ParseLines : PAddLine(ln)
    \/ PExtract
    \/ PSplit

SpecParse == InitParse /\ [][NextParse]_vars

SeqRange(sq) == {sq[i] : i \in 1..Len(sq)}

BothPresent(m) == m.score.home # NoScore /\ m.score.away # NoScore
BothAbsent(m) == m.score.home = NoScore /\ m.score.away = NoScore

\* C7: every event extract_matches_from_round emits has both scores
\* present or both absent; none has exactly one.
C7_ScoreAllOrNothing ==
    pphase # "page" =>
        \A m \in SeqRange(pout.matches) : BothPresent(m) \/ BothAbsent(m)

\* A score that is present is an integer >= 0.
FullScore(m) ==
    /\ BothPresent(m)
    /\ m.score.home[1] \in Nat
    /\ m.score.away[1] \in Nat

\* C8: an event's status is "finished" iff both scores are integers >= 0
\* and "scheduled" otherwise; fixtures hold only events lacking a full
\* score, results only events with both scores.
C8_StatusIffFullScore ==
    /\ pphase # "page" =>
          \A m \in SeqRange(pout.matches) :
              /\ m.status = "finished" <=> FullScore(m)
              /\ m.status = "scheduled" <=> ~FullScore(m)
    /\ pphase = "split" =>
          /\ \A m \in SeqRange(psplit.fixtures) : ~FullScore(m)
          /\ \A m \in SeqRange(psplit.results) : FullScore(m)
          /\ Len(psplit.fixtures) + Len(psplit.results) = Len(pout.matches)

\* Reached: a page with a finished match, split into results.
C8_Witness ==
    /\ pphase = "split"
    /\ \E m \in SeqRange(psplit.results) : m.status = "finished" /\ FullScore(m)
    /\ psplit.fixtures = <<>>

(***************************************************************************)
(* SpecWrite: one path, written again and again with values that differ    *)
(* in content or only in key order.                                        *)
(***************************************************************************)
WKeys == {"a", "b"}
WScalars == {JInt(1), JNull}

WOneKeyObjs == {JObj(<< <<k, v>> >>) : k \in WKeys, v \in WScalars}

\* Two keys with different values, in either insertion order.
WTwoKeyObjs ==
    {JObj(<< <<p[1], p[3]>>, <<p[2], p[4]>> >>) :
        p \in {q \in WKeys \X WKeys \X WScalars \X WScalars :
                  q[1] # q[2] /\ q[3] # q[4]}}

WValues ==
    {JInt(1), JObj(<<>>), JList(<<>>)}
    \cup WOneKeyObjs \cup WTwoKeyObjs
    \cup {JList(<<o>>) : o \in WTwoKeyObjs}
    \cup {JObj(<< <<"a", o>> >>) : o \in WTwoKeyObjs}

InitWrite ==
    /\ wfile \in {FileMissing, FileCorrupt}
    /\ wcalls = <<>>
    /\ ParseIdle
    /\ MainIdle

\* One call write_json_if_changed(path, v).
WCall(v) ==
    LET r == write_json_if_changed(wfile, v)
        c == [obj |-> v, before |-> wfile, after |-> r.file,
              ret |-> r.ret, writes |-> r.writes]
    IN  /\ wfile' = r.file
        /\ wcalls' = IF Len(wcalls) < 2 THEN Append(wcalls, c)
                     ELSE <<wcalls[2], c>>
        /\ UNCHANGED <<pvars, mvars>>

NextWrite == \E v \in WValues : WCall(v)

SpecWrite == InitWrite /\ [][NextWrite]_vars

\* The file does not hold the value: missing, unreadable, or other content.
MissingOrDifferent(f, v) ==
    \/ f.st # "json"
    \/ ~LogicallyEqual(f.val, v)

\* C1: two calls in a row with logically equal values (key order possibly
\* different): when the first call finds the file missing or different it
\* returns true, the second call returns false and leaves the file
\* untouched, and the two calls together write the file exactly once.
C1_IdempotentWrite ==
    (Len(wcalls) = 2 /\ LogicallyEqual(wcalls[1].obj, wcalls[2].obj)) =>
        /\ wcalls[2].ret = FALSE
        /\ wcalls[2].after = wcalls[2].before
        /\ wcalls[2].writes = 0
        /\ MissingOrDifferent(wcalls[1].before, wcalls[1].obj) =>
              /\ wcalls[1].ret = TRUE
              /\ wcalls[1].writes + wcalls[2].writes = 1

\* Reached: an object written over a different file, then handed in again
\* with its keys in the other order, and the second call reports no write.
C1_Witness ==
    /\ Len(wcalls) = 2
    /\ wcalls[1].obj # wcalls[2].obj
    /\ wcalls[1].obj.t = "obj"
    /\ LogicallyEqual(wcalls[1].obj, wcalls[2].obj)
    /\ wcalls[1].before.st = "json"
    /\ wcalls[1].ret = TRUE
    /\ wcalls[2].ret = FALSE

====
